---- MODULE Spec2Model ----
(***************************************************************************)
(* Model of hooks/run_third_party_license_generator.py: a wrapper that     *)
(* creates a temporary virtual environment, runs the third-party license   *)
(* generator in it as a subprocess and then strips the first and the last  *)
(* line of the generator's output file.                                    *)
(*                                                                         *)
(* Strings are Python strings.  A file is the list readlines() returns in  *)
(* text mode.  Subprocesses are the environment: their exit codes and the  *)
(* generator's effect on the file system are inputs.                       *)
(***************************************************************************)
EXTENDS Integers, Sequences, FiniteSets, TLC

VARIABLES
    pc,             \* position of the run inside main / the pure step of a function specification
    argv,           \* sys.argv[1:]
    platform,       \* sys.platform
    extra_args,     \* the argument of run_generator (a list or None)
    executable,     \* TempVenv.executable
    tempDir,        \* TempVenv._temp_dir on disk: "none", "exists" or "deleted"
    exitCalled,     \* TempVenv.__exit__ has run
    venvRc,         \* exit code of "python -m venv", NotRun before it is started
    pipRc,          \* exit code of "pip install", NotRun before it is started
    genRc,          \* exit code of the generator subprocess, NotRun before it is started
    cmd,            \* the command line handed to subprocess.check_call in run_generator
    pending,        \* the exception in flight (None when there is none)
    return_code,    \* main's local return_code
    name,           \* main's local name, the result of parse_output_file
    outcome,        \* how the run ended
    fs,             \* the file system: file name -> file
    fs0,            \* history: the file system when the run started
    fsGen,          \* history: the file system when the generator subprocess exited
    sanitizeCalls,  \* history: number of calls of remove_head_tail
    rewrites,       \* history: number of times a file was rewritten by remove_head_tail
    dirAtRewrite    \* history: tempDir at the moment of the rewrite

vars == <<pc, argv, platform, extra_args, executable, tempDir, exitCalled, venvRc, pipRc,
          genRc, cmd, pending, return_code, name, outcome, fs, fs0, fsGen, sanitizeCalls,
          rewrites, dirAtRewrite>>

(***************************************************************************)
(* Bounds of the model.                                                    *)
(***************************************************************************)
MaxArgs == 3        \* longest argument list of the parser and command specifications
MaxMainArgs == 2    \* longest argument list of a whole run
MaxLines == 4       \* longest file handed to remove_head_tail on its own
MaxFileLines == 3   \* longest file on disk during a whole run
MaxExit == 3        \* largest subprocess exit code
NumLineValues == 2  \* number of distinct line contents

(***************************************************************************)
(* Values.                                                                 *)
(***************************************************************************)
None == [none |-> TRUE]
Some(v) == [none |-> FALSE, val |-> v]

NotRun == -1
ExitCodes == 0..MaxExit

Platforms == {"linux", "win32"}

DefaultName == "THIRDPARTYLICENSES"
FileNames == {DefaultName, "custom.txt"}

\* The argument strings of the model.
Tokens == {"-o", "--output-file", "--out", "custom.txt", "other.txt", "--verbose", "--",
           "-h", "--output-file=other.txt"}
MainTokens == {"-o", "custom.txt", "-h", "--verbose"}
CmdTokens == {"--skip-prefix", "fc", "--requirements-path", "-o", "custom.txt"}

SeqsUpTo(S, n) == UNION {[1..k -> S] : k \in 0..n}

NoFile == [exists |-> FALSE, lines |-> <<>>]
FileWith(ls) == [exists |-> TRUE, lines |-> ls]
OldLines(n) == [i \in 1..n |-> <<"old", i>>]
NewLines(n) == [i \in 1..n |-> <<"new", i>>]

(***************************************************************************)
(* argparse, as parse_output_file uses it: a parser with the automatic     *)
(* -h/--help and the one option -o/--output-file taking one value.         *)
(***************************************************************************)
\* How ArgumentParser._parse_optional sees an argument string of Tokens.
TokenClass(t) ==
    CASE t \in {"-o", "--output-file", "--out"} -> "option"     \* --out: unambiguous prefix
      [] t = "--output-file=other.txt" -> "option_eq"
      [] t = "-h" -> "help"
      [] t = "--" -> "dashdash"
      [] t = "--verbose" -> "unknown"
      [] OTHER -> "word"

ExplicitValue(t) == "other.txt"

RECURSIVE ConsumeArgs(_, _, _, _, _)
\* The consume loop of parse_known_args from argument i on: value is
\* namespace.output_file so far, dd whether "--" was seen, extras the
\* unrecognised arguments.
ConsumeArgs(args, i, value, dd, extras) ==
    IF i > Len(args)
    THEN [kind |-> "namespace", namespace |-> [output_file |-> value], extras |-> extras]
    ELSE LET c == IF dd THEN "word" ELSE TokenClass(args[i]) IN
         CASE c = "dashdash" -> ConsumeArgs(args, i + 1, value, TRUE, Append(extras, args[i]))
           [] c \in {"word", "unknown"} ->
                  ConsumeArgs(args, i + 1, value, dd, Append(extras, args[i]))
           [] c = "help" -> [kind |-> "SystemExit", code |-> 0]
           [] c = "option_eq" ->
                  ConsumeArgs(args, i + 1, Some(ExplicitValue(args[i])), dd, extras)
           [] OTHER ->
                  IF i + 1 <= Len(args) /\ TokenClass(args[i + 1]) = "word"
                  THEN ConsumeArgs(args, i + 2, Some(args[i + 1]), dd, extras)
                  ELSE [kind |-> "SystemExit", code |-> 2]

\* parse_args: what the parser does when unrecognised arguments are an error.
parse_args(args) ==
    LET r == ConsumeArgs(args, 1, None, FALSE, <<>>) IN
    IF r.kind = "namespace" /\ r.extras # <<>>
    THEN [kind |-> "SystemExit", code |-> 2]
    ELSE r

parse_known_args(args) == ConsumeArgs(args, 1, None, FALSE, <<>>)

\* getattr(object, attribute, default)
getattr(ns, attr, default) == IF attr \in DOMAIN ns THEN ns[attr] ELSE default

parse_output_file(args) ==
    LET r == parse_known_args(args) IN
    IF r.kind = "SystemExit"
    THEN r
    ELSE [kind |-> "return", value |-> getattr(r.namespace, "output_file", Some(DefaultName))]

(***************************************************************************)
(* remove_head_tail                                                        *)
(***************************************************************************)
\* lines[1:-1] of Python
Interior(lines) == SubSeq(lines, 2, Len(lines) - 1)

remove_head_tail_keeps_last(fsys, file_path) ==
    IF file_path = None THEN [fs |-> fsys, raised |-> "TypeError"]
    ELSE IF ~fsys[file_path.val].exists THEN [fs |-> fsys, raised |-> "FileNotFoundError"]
    ELSE LET lines == fsys[file_path.val].lines IN
         IF Len(lines) > 2
         THEN [fs |-> [fsys EXCEPT ![file_path.val] = FileWith(SubSeq(lines, 2, Len(lines)))],
               raised |-> "none"]
         ELSE [fs |-> fsys, raised |-> "ValueError"]

remove_head_tail_two_lines(fsys, file_path) ==
    IF file_path = None THEN [fs |-> fsys, raised |-> "TypeError"]
    ELSE IF ~fsys[file_path.val].exists THEN [fs |-> fsys, raised |-> "FileNotFoundError"]
    ELSE LET lines == fsys[file_path.val].lines IN
         IF Len(lines) >= 2
         THEN [fs |-> [fsys EXCEPT ![file_path.val] = FileWith(Interior(lines))],
               raised |-> "none"]
         ELSE [fs |-> fsys, raised |-> "ValueError"]

\* The file system after the call and the exception it raised ("none": it returned).
remove_head_tail(fsys, file_path) ==
    IF file_path = None THEN [fs |-> fsys, raised |-> "TypeError"]
    ELSE IF ~fsys[file_path.val].exists THEN [fs |-> fsys, raised |-> "FileNotFoundError"]
    ELSE LET lines == fsys[file_path.val].lines IN
         IF Len(lines) > 2
         THEN [fs |-> [fsys EXCEPT ![file_path.val] = FileWith(Interior(lines))],
               raised |-> "none"]
         ELSE [fs |-> fsys, raised |-> "ValueError"]

(***************************************************************************)
(* TempVenv and the command line of run_generator                          *)
(***************************************************************************)
Sep(plat) == IF plat = "win32" THEN "\\" ELSE "/"
PathJoin2(plat, a, b) == a \o Sep(plat) \o b
PathJoin3(plat, a, b, c) == PathJoin2(plat, PathJoin2(plat, a, b), c)

\* tempfile.TemporaryDirectory().name
TempDirName(plat) == IF plat = "win32" THEN "C:\\Temp\\tmpab12" ELSE "/tmp/tmpab12"
\* sys.executable
SysExecutable(plat) == IF plat = "win32" THEN "C:\\Python\\python.exe" ELSE "/usr/bin/python3"

VenvPath(plat) == PathJoin2(plat, TempDirName(plat), ".venv")

get_executable_path(plat, venv_path) ==
    IF plat = "win32"
    THEN PathJoin3(plat, venv_path, "Scripts", "python.exe")
    ELSE PathJoin3(plat, venv_path, "bin", "python")

OrEmpty(extra) == IF extra = None THEN <<>> ELSE extra.val

BuildCmd_extras_first(exe, sys_executable, extra) ==
    <<exe, "-m", "third_party_license_file_generator">> \o OrEmpty(extra) \o
    <<"--requirements-path", "pyproject.toml", "--python-path", sys_executable,
      "--skip-prefix", "fc", "--skip-prefix", "fr", "--skip-prefix", "FR",
      "--do-not-skip-not-required-packages">>

BuildCmd(exe, sys_executable, extra) ==
    <<exe, "-m", "third_party_license_file_generator",
      "--requirements-path", "pyproject.toml", "--python-path", sys_executable,
      "--skip-prefix", "fc", "--skip-prefix", "fr", "--skip-prefix", "FR",
      "--do-not-skip-not-required-packages">> \o OrEmpty(extra)

CalledProcessError(code) == Some([type |-> "CalledProcessError", returncode |-> code])

(***************************************************************************)
(* A whole run of main                                                     *)
(***************************************************************************)
Running == [kind |-> "running", code |-> 0]
Returned(code) == [kind |-> "return", code |-> code]
\* An uncaught exception ends the interpreter with status 1, SystemExit with its code.
Uncaught(type) == [kind |-> type, code |-> 1]
SystemExit(code) == [kind |-> "SystemExit", code |-> code]

InitialFiles == {NoFile} \cup {FileWith(OldLines(n)) : n \in 0..MaxFileLines}

\* What the generator subprocess does to the file system: nothing, or it
\* writes one file.
GenWrites == {None} \cup {Some([file |-> f, lines |-> NewLines(n)]) :
                              f \in FileNames, n \in 0..MaxFileLines}
ApplyWrite(fsys, w) == IF w = None THEN fsys
                       ELSE [fsys EXCEPT ![w.val.file] = FileWith(w.val.lines)]

Idle ==
    /\ extra_args = None
    /\ executable = ""
    /\ tempDir = "none"
    /\ exitCalled = FALSE
    /\ venvRc = NotRun
    /\ pipRc = NotRun
    /\ genRc = NotRun
    /\ cmd = <<>>
    /\ pending = None
    /\ return_code = NotRun
    /\ name = None
    /\ outcome = Running
    /\ sanitizeCalls = 0
    /\ rewrites = 0
    /\ dirAtRewrite = "none"

Init ==
    /\ pc = "main"
    /\ argv \in SeqsUpTo(MainTokens, MaxMainArgs)
    /\ platform \in Platforms
    /\ fs \in [FileNames -> InitialFiles]
    /\ fs0 = fs
    /\ fsGen = fs
    /\ Idle

\* main calls run_generator(sys.argv[1:]), whose with statement constructs
\* TempVenv(): the temporary directory is created and the paths are derived.
TempVenvInit ==
    /\ pc = "main"
    /\ extra_args' = Some(argv)
    /\ tempDir' = "exists"
    /\ executable' = get_executable_path(platform, VenvPath(platform))
    /\ pc' = "enter_venv"
    /\ UNCHANGED <<argv, platform, exitCalled, venvRc, pipRc, genRc, cmd, pending,
                   return_code, name, outcome, fs, fs0, fsGen, sanitizeCalls, rewrites,
                   dirAtRewrite>>

\* subprocess.call in place of check_call: the exit code is ignored.
EnterVenv_unchecked ==
    /\ pc = "enter_venv"
    /\ \E code \in ExitCodes :
         /\ venvRc' = code
         /\ pending' = None
         /\ pc' = "enter_pip"
    /\ UNCHANGED <<argv, platform, extra_args, executable, tempDir, exitCalled, pipRc, genRc,
                   cmd, return_code, name, outcome, fs, fs0, fsGen, sanitizeCalls, rewrites,
                   dirAtRewrite>>

\* TempVenv.__enter__, first command: python -m venv.  A non-zero exit raises
\* CalledProcessError out of __enter__, so the with statement never runs
\* __exit__ and the exception reaches main.
EnterVenv ==
    /\ pc = "enter_venv"
    /\ \E code \in ExitCodes :
         /\ venvRc' = code
         /\ IF code = 0
            THEN pending' = None /\ pc' = "enter_pip"
            ELSE pending' = CalledProcessError(code) /\ pc' = "main_except"
    /\ UNCHANGED <<argv, platform, extra_args, executable, tempDir, exitCalled, pipRc, genRc,
                   cmd, return_code, name, outcome, fs, fs0, fsGen, sanitizeCalls, rewrites,
                   dirAtRewrite>>

\* TempVenv.__enter__, second command: pip install of the generator.
EnterPip ==
    /\ pc = "enter_pip"
    /\ \E code \in ExitCodes :
         /\ pipRc' = code
         /\ IF code = 0
            THEN pending' = None /\ pc' = "generator"
            ELSE pending' = CalledProcessError(code) /\ pc' = "main_except"
    /\ UNCHANGED <<argv, platform, extra_args, executable, tempDir, exitCalled, venvRc, genRc,
                   cmd, return_code, name, outcome, fs, fs0, fsGen, sanitizeCalls, rewrites,
                   dirAtRewrite>>

\* The body of the with statement: the command line is built and run.
\* check_call returns 0 or raises CalledProcessError.
RunGenerator ==
    /\ pc = "generator"
    /\ cmd' = BuildCmd(executable, SysExecutable(platform), extra_args)
    /\ \E code \in ExitCodes, w \in GenWrites :
         /\ genRc' = code
         /\ fs' = ApplyWrite(fs, w)
         /\ fsGen' = fs'
         /\ pending' = IF code = 0 THEN None ELSE CalledProcessError(code)
    /\ pc' = "exit"
    /\ UNCHANGED <<argv, platform, extra_args, executable, tempDir, exitCalled, venvRc, pipRc,
                   return_code, name, outcome, fs0, sanitizeCalls, rewrites, dirAtRewrite>>

\* __exit__ without the cleanup.
Exit_no_cleanup ==
    /\ pc = "exit"
    /\ exitCalled' = TRUE
    /\ IF pending = None
       THEN return_code' = genRc /\ pc' = "main_else"
       ELSE return_code' = return_code /\ pc' = "main_except"
    /\ UNCHANGED <<argv, platform, extra_args, executable, tempDir, venvRc, pipRc, genRc, cmd,
                   pending, name, outcome, fs, fs0, fsGen, sanitizeCalls, rewrites,
                   dirAtRewrite>>

\* TempVenv.__exit__: the temporary directory is removed; it returns None, so
\* an exception of the body goes on to main, else run_generator returns.
Exit ==
    /\ pc = "exit"
    /\ exitCalled' = TRUE
    /\ tempDir' = "deleted"
    /\ IF pending = None
       THEN return_code' = genRc /\ pc' = "main_else"
       ELSE return_code' = return_code /\ pc' = "main_except"
    /\ UNCHANGED <<argv, platform, extra_args, executable, venvRc, pipRc, genRc, cmd, pending,
                   name, outcome, fs, fs0, fsGen, sanitizeCalls, rewrites, dirAtRewrite>>

\* except clause that returns 1 for every failure.
MainExcept_generic ==
    /\ pc = "main_except"
    /\ outcome' = Returned(1)
    /\ pending' = None
    /\ \E collected \in BOOLEAN :
         tempDir' = IF collected /\ tempDir = "exists" THEN "deleted" ELSE tempDir
    /\ pc' = "done"
    /\ UNCHANGED <<argv, platform, extra_args, executable, exitCalled, venvRc, pipRc,
                   genRc, cmd, return_code, name, fs, fs0, fsGen, sanitizeCalls, rewrites,
                   dirAtRewrite>>

\* main: except subprocess.CalledProcessError as error: return error.returncode
\* Leaving the clause drops the exception and with it the last reference to a
\* TempVenv whose __enter__ raised; whether the TemporaryDirectory's finalizer
\* then removes the directory depends on the garbage collector.
MainExcept ==
    /\ pc = "main_except"
    /\ outcome' = Returned(pending.val.returncode)
    /\ pending' = None
    /\ \E collected \in BOOLEAN :
         tempDir' = IF collected /\ tempDir = "exists" THEN "deleted" ELSE tempDir
    /\ pc' = "done"
    /\ UNCHANGED <<argv, platform, extra_args, executable, exitCalled, venvRc, pipRc,
                   genRc, cmd, return_code, name, fs, fs0, fsGen, sanitizeCalls, rewrites,
                   dirAtRewrite>>

\* main, else clause: name = parse_output_file(); argparse may end the run.
MainParse ==
    /\ pc = "main_else"
    /\ LET r == parse_output_file(argv) IN
         IF r.kind = "SystemExit"
         THEN /\ outcome' = SystemExit(r.code)
              /\ name' = name
              /\ pc' = "done"
         ELSE /\ outcome' = outcome
              /\ name' = r.value
              /\ pc' = "sanitize"
    /\ UNCHANGED <<argv, platform, extra_args, executable, tempDir, exitCalled, venvRc, pipRc,
                   genRc, cmd, pending, return_code, fs, fs0, fsGen, sanitizeCalls, rewrites,
                   dirAtRewrite>>

\* main returns the code without sanitizing.
MainSanitize_skipped ==
    /\ pc = "sanitize"
    /\ outcome' = Returned(return_code)
    /\ pc' = "done"
    /\ UNCHANGED <<argv, platform, extra_args, executable, tempDir, exitCalled, venvRc, pipRc,
                   genRc, cmd, pending, return_code, name, fs, fs0, fsGen, sanitizeCalls,
                   rewrites, dirAtRewrite>>

\* main, else clause: remove_head_tail(name); return return_code
MainSanitize ==
    /\ pc = "sanitize"
    /\ LET r == remove_head_tail(fs, name) IN
         /\ fs' = r.fs
         /\ sanitizeCalls' = sanitizeCalls + 1
         /\ IF r.raised = "none"
            THEN /\ rewrites' = rewrites + 1
                 /\ dirAtRewrite' = tempDir
                 /\ outcome' = Returned(return_code)
            ELSE /\ rewrites' = rewrites
                 /\ dirAtRewrite' = dirAtRewrite
                 /\ outcome' = Uncaught(r.raised)
    /\ pc' = "done"
    /\ UNCHANGED <<argv, platform, extra_args, executable, tempDir, exitCalled, venvRc, pipRc,
                   genRc, cmd, pending, return_code, name, fs0, fsGen>>

Next ==
    \/ TempVenvInit
    \/ EnterVenv
    \/ EnterPip
    \/ RunGenerator
    \/ Exit
    \/ MainExcept
    \/ MainParse
    \/ MainSanitize

Spec == Init /\ [][Next]_vars

(***************************************************************************)
(* parse_output_file on its own, over every argument list of Tokens        *)
(***************************************************************************)
InitParse ==
    /\ pc = "parse"
    /\ argv \in SeqsUpTo(Tokens, MaxArgs)
    /\ platform = "linux"
    /\ fs = [f \in FileNames |-> NoFile]
    /\ fs0 = fs
    /\ fsGen = fs
    /\ Idle

ParseStep ==
    /\ pc = "parse"
    /\ LET r == parse_output_file(argv) IN
         IF r.kind = "SystemExit"
         THEN outcome' = SystemExit(r.code) /\ name' = name
         ELSE outcome' = Returned(0) /\ name' = r.value
    /\ pc' = "parsed"
    /\ UNCHANGED <<argv, platform, extra_args, executable, tempDir, exitCalled, venvRc, pipRc,
                   genRc, cmd, pending, return_code, fs, fs0, fsGen, sanitizeCalls, rewrites,
                   dirAtRewrite>>

NextParse == ParseStep

SpecParse == InitParse /\ [][NextParse]_vars

(***************************************************************************)
(* remove_head_tail on its own, over every file of up to MaxLines lines    *)
(***************************************************************************)
LineValues == {<<"old", v>> : v \in 1..NumLineValues}

InitTrim ==
    /\ pc = "trim"
    /\ argv = <<>>
    /\ platform = "linux"
    /\ \E f \in FileNames, ls \in SeqsUpTo(LineValues, MaxLines) :
         /\ fs = [g \in FileNames |-> IF g = f THEN FileWith(ls) ELSE NoFile]
         /\ name = Some(f)
    /\ fs0 = fs
    /\ fsGen = fs
    /\ extra_args = None
    /\ executable = ""
    /\ tempDir = "none"
    /\ exitCalled = FALSE
    /\ venvRc = NotRun
    /\ pipRc = NotRun
    /\ genRc = NotRun
    /\ cmd = <<>>
    /\ pending = None
    /\ return_code = NotRun
    /\ outcome = Running
    /\ sanitizeCalls = 0
    /\ rewrites = 0
    /\ dirAtRewrite = "none"

TrimStep ==
    /\ pc = "trim"
    /\ LET r == remove_head_tail(fs, name) IN
         /\ fs' = r.fs
         /\ outcome' = IF r.raised = "none" THEN Returned(0) ELSE Uncaught(r.raised)
    /\ sanitizeCalls' = sanitizeCalls + 1
    /\ pc' = "trimmed"
    /\ UNCHANGED <<argv, platform, extra_args, executable, tempDir, exitCalled, venvRc, pipRc,
                   genRc, cmd, pending, return_code, name, fs0, fsGen, rewrites, dirAtRewrite>>

NextTrim == TrimStep

SpecTrim == InitTrim /\ [][NextTrim]_vars

(***************************************************************************)
(* The command line of run_generator on its own, for every extra_args      *)
(***************************************************************************)
InitCmd ==
    /\ pc = "cmd"
    /\ argv = <<>>
    /\ platform \in Platforms
    /\ extra_args \in {None} \cup {Some(a) : a \in SeqsUpTo(CmdTokens, MaxArgs)}
    /\ executable = get_executable_path(platform, VenvPath(platform))
    /\ fs = [f \in FileNames |-> NoFile]
    /\ fs0 = fs
    /\ fsGen = fs
    /\ tempDir = "exists"
    /\ exitCalled = FALSE
    /\ venvRc = 0
    /\ pipRc = 0
    /\ genRc = NotRun
    /\ cmd = <<>>
    /\ pending = None
    /\ return_code = NotRun
    /\ name = None
    /\ outcome = Running
    /\ sanitizeCalls = 0
    /\ rewrites = 0
    /\ dirAtRewrite = "none"

CmdStep ==
    /\ pc = "cmd"
    /\ cmd' = BuildCmd(executable, SysExecutable(platform), extra_args)
    /\ pc' = "cmd_built"
    /\ UNCHANGED <<argv, platform, extra_args, executable, tempDir, exitCalled, venvRc, pipRc,
                   genRc, pending, return_code, name, outcome, fs, fs0, fsGen, sanitizeCalls,
                   rewrites, dirAtRewrite>>

NextCmd == CmdStep

SpecCmd == InitCmd /\ [][NextCmd]_vars

(***************************************************************************)
(* Properties                                                              *)
(***************************************************************************)

\* C1, as stated: when the generator exits with a non-zero code k, main
\* returns k, remove_head_tail is never called and the output file is what
\* it was before the run.
C1_Original ==
    (pc = "done" /\ genRc > 0) =>
        (outcome = Returned(genRc) /\ sanitizeCalls = 0 /\ fs = fs0)

\* C1, amended: when the generator exits with a non-zero code k, main
\* returns k, remove_head_tail is never called and the files are exactly
\* what the generator subprocess left.
C1_Amended ==
    (pc = "done" /\ genRc > 0) =>
        (outcome = Returned(genRc) /\ sanitizeCalls = 0 /\ rewrites = 0 /\ fs = fsGen)

C1_Witness ==
    pc = "done" /\ venvRc = 0 /\ pipRc = 0 /\ genRc = 3 /\ outcome = Returned(3)

\* C2: once venv creation and pip install both exited 0, the temporary
\* directory is gone when run_generator has returned or raised, whatever the
\* generator's exit code.
C2_Released ==
    (pc \in {"main_except", "main_else", "sanitize", "done"} /\ venvRc = 0 /\ pipRc = 0) =>
        (exitCalled /\ tempDir = "deleted")

C2_Witness ==
    pc = "main_except" /\ venvRc = 0 /\ pipRc = 0 /\ genRc > 0 /\ tempDir = "deleted"

\* C3: when venv creation or pip install fails inside __enter__, __exit__
\* has run and the temporary directory is deleted by the time the failure
\* has left run_generator.
C3_ReleasedAfterFailedEnter ==
    (pc = "main_except" /\ (venvRc > 0 \/ pipRc > 0)) =>
        (exitCalled /\ tempDir = "deleted")

NoOutputOption(args) ==
    \A i \in 1..Len(args) : TokenClass(args[i]) \notin {"option", "option_eq"}

\* C4: when the arguments hold no -o/--output-file, the name main passes to
\* remove_head_tail is THIRDPARTYLICENSES.
C4_DefaultName ==
    (pc = "sanitize" /\ NoOutputOption(argv)) => name = Some(DefaultName)

IsOutputFlag(t) == t \in {"-o", "--output-file"}
HasPairAt(args, i) ==
    i < Len(args) /\ IsOutputFlag(args[i]) /\ TokenClass(args[i + 1]) = "word"

\* C5, as stated: when the arguments contain "-o P" or "--output-file P",
\* parse_output_file returns P, whatever else is in the list.
C5_Original ==
    (pc = "parsed" /\ \E i \in 1..Len(argv) : HasPairAt(argv, i)) =>
        (outcome.kind = "return"
         /\ \E i \in 1..Len(argv) : HasPairAt(argv, i) /\ name = Some(argv[i + 1]))

\* The lists C5 holds for: at least one -o/--output-file, each followed by a
\* value, and every other argument a plain word or an unknown option.
Covered(args) ==
    /\ \E i \in 1..Len(args) : IsOutputFlag(args[i])
    /\ \A i \in 1..Len(args) :
         \/ HasPairAt(args, i)
         \/ (~IsOutputFlag(args[i]) /\ TokenClass(args[i]) \in {"word", "unknown"})
LastFlag(args) ==
    CHOOSE i \in 1..Len(args) :
        IsOutputFlag(args[i]) /\ \A j \in (i + 1)..Len(args) : ~IsOutputFlag(args[j])

\* C5, amended: when every -o/--output-file is followed by a value not
\* starting with "-" and every other argument is a plain word or an option
\* the parser does not know, parse_output_file returns the value of the last
\* -o/--output-file and there is no parse error.
C5_Amended ==
    (pc = "parsed" /\ Covered(argv)) =>
        (outcome = Returned(0) /\ name = Some(argv[LastFlag(argv) + 1]))

C5_Witness ==
    pc = "parsed" /\ argv = <<"--verbose", "-o", "custom.txt">> /\ name = Some("custom.txt")

TrimInput == fs0[name.val].lines
TrimOutput == fs[name.val].lines

\* C6: a file of n >= 3 lines is left with lines 2..n-1, in order, and
\* remove_head_tail returns.
C6_InteriorLines ==
    (pc = "trimmed" /\ Len(TrimInput) >= 3) =>
        /\ outcome = Returned(0)
        /\ fs[name.val].exists
        /\ Len(TrimOutput) = Len(TrimInput) - 2
        /\ \A i \in 1..Len(TrimOutput) : TrimOutput[i] = TrimInput[i + 1]
        /\ \A f \in FileNames \ {name.val} : fs[f] = fs0[f]

C6_Witness ==
    /\ pc = "trimmed"
    /\ Len(TrimInput) = 4
    /\ TrimInput[2] # TrimInput[3]
    /\ TrimOutput = <<TrimInput[2], TrimInput[3]>>

\* C7: on a file of 0, 1 or 2 lines remove_head_tail raises ValueError and
\* the file is unchanged.
C7_ShortFile ==
    (pc = "trimmed" /\ Len(TrimInput) <= 2) =>
        (outcome = Uncaught("ValueError") /\ fs = fs0)

C7_Witness ==
    pc = "trimmed" /\ Len(TrimInput) = 2 /\ outcome = Uncaught("ValueError") /\ fs = fs0

Extras == IF extra_args = None THEN <<>> ELSE extra_args.val

\* C8: the command is the environment's executable, -m and the module, the
\* six fixed flags in their order, then the extra arguments in their order.
C8_Command ==
    pc = "cmd_built" =>
        /\ Len(cmd) = 14 + Len(Extras)
        /\ cmd[1] = executable
        /\ cmd[2] = "-m"
        /\ cmd[3] = "third_party_license_file_generator"
        /\ cmd[4] = "--requirements-path" /\ cmd[5] = "pyproject.toml"
        /\ cmd[6] = "--python-path" /\ cmd[7] = SysExecutable(platform)
        /\ cmd[8] = "--skip-prefix" /\ cmd[9] = "fc"
        /\ cmd[10] = "--skip-prefix" /\ cmd[11] = "fr"
        /\ cmd[12] = "--skip-prefix" /\ cmd[13] = "FR"
        /\ cmd[14] = "--do-not-skip-not-required-packages"
        /\ \A i \in 1..Len(Extras) : cmd[14 + i] = Extras[i]

C8_Witness ==
    /\ pc = "cmd_built"
    /\ extra_args = Some(<<"--skip-prefix", "fc", "-o">>)
    /\ Len(cmd) = 17

\* C9: after a failed venv creation pip install and the generator are never
\* started, after a failed pip install the generator is never started; main
\* returns the failing code and remove_head_tail is not called.
C9_FailedAcquisition ==
    /\ venvRc > 0 =>
         /\ pipRc = NotRun /\ genRc = NotRun /\ sanitizeCalls = 0
         /\ pc = "done" => outcome = Returned(venvRc)
    /\ pipRc > 0 =>
         /\ genRc = NotRun /\ sanitizeCalls = 0
         /\ pc = "done" => outcome = Returned(pipRc)

C9_Witness ==
    pc = "done" /\ venvRc = 0 /\ pipRc = 2 /\ genRc = NotRun /\ outcome = Returned(2)

EveryFileShort == \A f \in FileNames : fsGen[f].exists /\ Len(fsGen[f].lines) <= 2
HasHelp(args) == \E i \in 1..Len(args) : TokenClass(args[i]) = "help"

ReturnsZeroOnlyAfterRewrite ==
    outcome = Returned(0) =>
        /\ venvRc = 0 /\ pipRc = 0 /\ genRc = 0
        /\ name # None
        /\ sanitizeCalls = 1 /\ rewrites = 1
        /\ dirAtRewrite = "deleted"
        /\ Len(fsGen[name.val].lines) >= 3
        /\ Len(fs[name.val].lines) = Len(fsGen[name.val].lines) - 2
        /\ \A i \in 1..Len(fs[name.val].lines) :
               fs[name.val].lines[i] = fsGen[name.val].lines[i + 1]

\* C10, as stated: main returns 0 only after three successful subprocesses
\* and one rewrite to the interior lines made after the release; with a
\* successful generator and an output file of two or fewer lines the run
\* ends with an uncaught error and a non-zero status.
C10_Original ==
    /\ ReturnsZeroOnlyAfterRewrite
    /\ (pc = "done" /\ genRc = 0 /\ EveryFileShort) =>
           (outcome.kind # "return" /\ outcome.code # 0)

\* C10, amended: as stated, except that with -h/--help among the arguments
\* the run may end through argparse's SystemExit(0) before any sanitizing;
\* main still never returns 0 there.
C10_Amended ==
    /\ ReturnsZeroOnlyAfterRewrite
    /\ (pc = "done" /\ genRc = 0 /\ EveryFileShort) =>
           /\ outcome.kind # "return"
           /\ outcome.code = 0 => (outcome = SystemExit(0) /\ HasHelp(argv) /\ sanitizeCalls = 0)

C10_Witness ==
    /\ pc = "done" /\ outcome = Returned(0)
    /\ argv = <<"-o", "custom.txt">>
    /\ rewrites = 1 /\ fs # fsGen

====
